---- MODULE Spec2Model ----
(***************************************************************************)
(* Model of improve_baseline_svhn.py: the forward pass (predict), the      *)
(* per-example private gradient (private_grad), the uncertainty sampler    *)
(* and the fine-tuning loop of main.                                       *)
(*                                                                         *)
(* Numbers are exact rationals [n, d]; the inputs of private_grad are      *)
(* drawn from gradients whose norms are rational, so the square roots the  *)
(* code takes are exact in the model.                                      *)
(***************************************************************************)
EXTENDS Integers, Sequences, FiniteSets, TLC

\* ------------------------------------------------------------- bounds
\* Largest FLAGS.epochs explored.
MaxEpochs == 2
\* Largest FLAGS.batch_size explored (also the largest batch given to
\* private_grad on its own).
MaxBatch == 2
\* Largest FLAGS.n_extra explored (one more than the pool size, so that a
\* request larger than the pool occurs).
MaxExtra == 4
\* Number of examples in the candidate pool.
NPool == 3

\* -------------------------------------------------- program constants
\* FLAGS.seed (its default).
FLAGS_seed == 0
\* get_params(pretrained_opt_state)[:7]
PretrainedPrefix == 7

\* ---------------------------------------------------------- rationals
Abs(x) == IF x < 0 THEN -x ELSE x

Min2(a, b) == IF a <= b THEN a ELSE b

RECURSIVE GCD(_, _)
GCD(a, b) == IF b = 0 THEN a ELSE GCD(b, a % b)

Rat(n, d) ==
  LET s == IF d < 0 THEN -1 ELSE 1
      g == GCD(Abs(n), Abs(d))
  IN  [n |-> (s * n) \div g, d |-> (s * d) \div g]

RInt(k) == [n |-> k, d |-> 1]
RAdd(a, b) == Rat(a.n * b.d + b.n * a.d, a.d * b.d)
RMul(a, b) == Rat(a.n * b.n, a.d * b.d)
RDiv(a, b) == Rat(a.n * b.d, a.d * b.n)
RLe(a, b) == a.n * b.d <= b.n * a.d
RLt(a, b) == a.n * b.d < b.n * a.d
RMax(a, b) == IF RLe(a, b) THEN b ELSE a

\* Floor of the square root; exact on perfect squares.
ISqrt(n) == CHOOSE r \in 0..n : r * r <= n /\ (r + 1) * (r + 1) > n
RSqrt(a) == Rat(ISqrt(a.n), ISqrt(a.d))

RECURSIVE SumSqFrom(_, _)
SumSqFrom(v, i) ==
  IF i > Len(v) THEN RInt(0) ELSE RAdd(RMul(v[i], v[i]), SumSqFrom(v, i + 1))

\* np.linalg.norm of a flat vector.
Norm(v) == RSqrt(SumSqFrom(v, 1))

\* ------------------------------------------------------- private_grad
\* Sizes of the parameter tensors of the gradient tree.
TensorSizes == <<2, 1>>

R0 == RInt(0)

\* Per-example gradients grad_loss may return (each a tree: one flat tensor
\* per parameter tensor), named by their global norm.
GZero == << <<R0, R0>>, <<R0>> >>
G3 == << <<RInt(3), R0>>, <<R0>> >>
GHalf == << <<Rat(3, 10), Rat(4, 10)>>, <<R0>> >>
G5 == << <<RInt(3), R0>>, <<RInt(4)>> >>
G13 == << <<RInt(3), RInt(4)>>, <<RInt(12)>> >>
GOne == << <<R0, RInt(-1)>>, <<R0>> >>
G2 == << <<R0, R0>>, <<RInt(-2)>> >>

ExampleGrads == {GZero, G3, GHalf, G5, G13, GOne, G2}

\* Faulty variant: the tensors' norms added up instead of combined into one
\* L2 norm.
MutNormSumOfLayers(grads) ==
  LET RECURSIVE S(_)
      S(t) == IF t > Len(grads) THEN RInt(0) ELSE RAdd(Norm(grads[t]), S(t + 1))
  IN  S(1)

\* total_grad_norm: the norm of the list of the tensors' norms.
total_grad_norm(grads) == Norm([t \in DOMAIN grads |-> Norm(grads[t])])

\* divisor = amax((total_grad_norm / l2_norm_clip, 1.))
clip_divisor(grads, l2_norm_clip) ==
  RMax(RDiv(total_grad_norm(grads), l2_norm_clip), RInt(1))

\* _clipped_grad: every tensor of the example's gradient divided by divisor.
clipped_grad(grads, l2_norm_clip) ==
  LET divisor == clip_divisor(grads, l2_norm_clip)
  IN  [t \in DOMAIN grads |->
        [c \in DOMAIN grads[t] |-> RDiv(grads[t][c], divisor)]]

\* sum_ = np.sum(n, 0): one tensor summed over the batch axis.
RECURSIVE SumOverBatch(_, _, _, _)
SumOverBatch(px, t, c, i) ==
  IF i > Len(px) THEN RInt(0)
  ELSE RAdd(px[i][t][c], SumOverBatch(px, t, c, i + 1))

sum_(px, t) == [c \in 1..TensorSizes[t] |-> SumOverBatch(px, t, c, 1)]

\* Faulty variant: the noise scaled by noise_multiplier alone.
MutStdDevNoClip(l2_norm_clip, noise_multiplier) == noise_multiplier

\* std_dev = l2_norm_clip * noise_multiplier
std_dev(l2_norm_clip, noise_multiplier) == RMul(l2_norm_clip, noise_multiplier)

\* noise_ = n + std_dev * random.normal(rng, n.shape).  The draw is a function
\* of the key and the shape; a noised tensor is kept as the affine form
\* det + coef * normal(key, shape).
noise_(n, sd, rng) ==
  [det |-> n, coef |-> sd, key |-> rng, shape |-> Len(n)]

\* normalize_ = n / float(batch_size)
normalize_(n, batch_size) ==
  [det |-> [c \in DOMAIN n.det |-> RDiv(n.det[c], RInt(batch_size))],
   coef |-> RDiv(n.coef, RInt(batch_size)),
   key |-> n.key, shape |-> n.shape]

\* px_clipped_grad_fn(batch): _clipped_grad mapped over the examples.
px_clipped_grad_fn(batch, l2_norm_clip) ==
  [i \in DOMAIN batch |-> clipped_grad(batch[i], l2_norm_clip)]

private_grad(batch, rng, l2_norm_clip, noise_multiplier, batch_size) ==
  LET px == px_clipped_grad_fn(batch, l2_norm_clip)
      aggregated == [t \in DOMAIN TensorSizes |-> sum_(px, t)]
      noised == [t \in DOMAIN TensorSizes |->
                  noise_(aggregated[t],
                         std_dev(l2_norm_clip, noise_multiplier), rng)]
  IN  [t \in DOMAIN TensorSizes |-> normalize_(noised[t], batch_size)]

\* random.PRNGKey(seed) and random.fold_in(key, i): keys are kept as the
\* sequence of what was folded in (fold_in is taken to be collision free).
PRNGKey(seed) == <<seed>>
fold_in(key, i) == Append(key, i)

VARIABLES pg_phase, pg_args, pg_divisors, pg_clipped, pg_ret

pgvars == <<pg_phase, pg_args, pg_divisors, pg_clipped, pg_ret>>

ClipNorms == {RInt(1), RInt(2)}
NoiseMultipliers == {RInt(0), RInt(1)}

Batches == UNION {[1..k -> ExampleGrads] : k \in 1..MaxBatch}

InitGradArgs ==
  /\ pg_phase = "call"
  /\ pg_args \in [batch : Batches, rng : {fold_in(PRNGKey(FLAGS_seed), 0)},
                  l2_norm_clip : ClipNorms,
                  noise_multiplier : NoiseMultipliers,
                  batch_size : 1..MaxBatch]
  /\ pg_divisors = <<>>
  /\ pg_clipped = <<>>
  /\ pg_ret = <<>>

PrivateGradCall ==
  /\ pg_phase = "call"
  /\ pg_phase' = "returned"
  /\ pg_divisors' = [i \in DOMAIN pg_args.batch |->
                      clip_divisor(pg_args.batch[i], pg_args.l2_norm_clip)]
  /\ pg_clipped' = px_clipped_grad_fn(pg_args.batch, pg_args.l2_norm_clip)
  /\ pg_ret' = private_grad(pg_args.batch, pg_args.rng, pg_args.l2_norm_clip,
                            pg_args.noise_multiplier, pg_args.batch_size)
  /\ UNCHANGED pg_args

\* ------------------------------------------------------------ predict
\* The parameter list of the model, one entry per stax layer: apply_fn_0 is
\* Conv, Tanh, MaxPool, Conv, Tanh, MaxPool, Flatten, Dense, Tanh and
\* apply_fn_1 is Dense.  A layer without weights has the entry "empty".
Layers0 ==
  <<"conv1", "empty", "empty", "conv2", "empty", "empty", "empty", "dense1",
    "empty">>
Layers1 == <<"dense2">>
FullParams == Layers0 \o Layers1

\* Python slices s[:k] (k >= 0), s[:-1] and s[-1:].
SliceTo(s, k) == SubSeq(s, 1, Min2(k, Len(s)))
ButLast(s) == IF Len(s) = 0 THEN <<>> ELSE SubSeq(s, 1, Len(s) - 1)
LastOnly(s) == IF Len(s) = 0 THEN <<>> ELSE SubSeq(s, Len(s), Len(s))
Reverse(s) == [i \in 1..Len(s) |-> s[Len(s) + 1 - i]]

\* The apply function stax.serial builds: the layers are zipped with the
\* parameter entries, so a short list applies only as many layers as it has
\* entries.  A Conv or Dense layer unpacks its own weights and raises on
\* any other entry; a layer without weights ignores its entry.
RECURSIVE serial_apply(_, _, _)
serial_apply(layers, params, k) ==
  IF k > Len(layers) \/ k > Len(params)
    THEN [applied |-> k - 1, raised |-> FALSE]
  ELSE IF layers[k] # "empty" /\ params[k] # layers[k]
    THEN [applied |-> k - 1, raised |-> TRUE]
  ELSE serial_apply(layers, params, k + 1)

\* predict: what it passes to the two stages and what comes back.  logits
\* tells whether the value returned is the network's [N, 10] logits.
predict(params) ==
  LET params_0 == ButLast(params)
      params_1 == LastOnly(params)
      e == serial_apply(Layers0, params_0, 1)
      h == IF e.raised THEN [applied |-> 0, raised |-> FALSE]
           ELSE serial_apply(Layers1, params_1, 1)
      raised == e.raised \/ h.raised
  IN  [params |-> params, params_0 |-> params_0, params_1 |-> params_1,
       embed_called |-> TRUE, embed_applied |-> e.applied,
       head_called |-> ~e.raised, head_applied |-> h.applied,
       error |-> IF raised THEN "LibraryError" ELSE "none",
       logits |-> /\ ~raised
                  /\ e.applied = Len(Layers0)
                  /\ h.applied = Len(Layers1)]

\* accuracy: predict, then argmax and the comparison with target_class, which
\* fails on a value that is not [N, 10] logits.
accuracy(params) ==
  LET p == predict(params)
  IN  [call |-> p,
       error |-> IF p.error # "none" THEN p.error
                 ELSE IF ~p.logits THEN "BroadcastError"
                 ELSE "none"]

\* ------------------------------------------------------------ sampler
\* Softmax probabilities of a pool example, in tenths, one per class.
P541 == <<5, 4, 1>>
P262 == <<2, 6, 2>>
P424 == <<4, 2, 4>>
ProbVectors == {P541, P262, P424}

\* 1000 * (-p * log(p)) for p in tenths, rounded.
NegPLogP == <<230, 322, 361, 367, 347, 306, 250, 179, 95>>

RECURSIVE SumSeq(_, _)
SumSeq(s, i) == IF i > Len(s) THEN 0 ELSE s[i] + SumSeq(s, i + 1)

\* pool_entropy = -sum(pool_probs * log(pool_probs), axis=1)
entropy(p) == SumSeq([c \in DOMAIN p |-> NegPLogP[p[c]]], 1)

SeqMax(s) == CHOOSE m \in {s[i] : i \in DOMAIN s} : \A i \in DOMAIN s : s[i] <= m
SeqMin(s) == CHOOSE m \in {s[i] : i \in DOMAIN s} : \A i \in DOMAIN s : m <= s[i]

\* onp.sort(row): ascending.
RECURSIVE sort_row(_)
sort_row(s) ==
  IF Len(s) = 0 THEN <<>>
  ELSE LET i == CHOOSE i \in DOMAIN s : s[i] = SeqMax(s)
           rest == SubSeq(s, 1, i - 1) \o SubSeq(s, i + 1, Len(s))
       IN  Append(sort_row(rest), s[i])

\* pool_probs_diff = sorted_pool_probs[:, -1] - sorted_pool_probs[:, -2]
probs_diff(p) ==
  LET sorted == sort_row(p) IN sorted[Len(sorted)] - sorted[Len(sorted) - 1]

\* The two scores of every probability vector a pool example may have.
EntropyOf == [p \in ProbVectors |-> entropy(p)]
DiffOf == [p \in ProbVectors |-> probs_diff(p)]

\* Permutations of a set of pool indices, as sequences.
RECURSIVE PermsOf(_)
PermsOf(S) ==
  IF S = {} THEN {<<>>}
  ELSE UNION {{<<x>> \o q : q \in PermsOf(S \ {x})} : x \in S}

\* The permutations of the pool's indices 0..n_pool-1.
PoolPerms == PermsOf(0..(NPool - 1))

\* onp.argsort(score) of one score per pool example: the order among equal
\* scores is the sort's choice.
argsort(score) ==
  {q \in PoolPerms :
     \A i \in 1..(Len(score) - 1) : score[q[i] + 1] <= score[q[i + 1] + 1]}

\* Faulty variant: the ascending order cut without reversing it.
MutEntropyNoReverse(sorted, k) == SliceTo(sorted, k)

\* pool_entropy_sorted_indices[::-1][:FLAGS.n_extra]
most_uncertain_entropy(sorted, k) == SliceTo(Reverse(sorted), k)

\* onp.argsort(pool_probs_diff)[:FLAGS.n_extra]
most_uncertain_diff(sorted, k) == SliceTo(sorted, k)

\* Faulty variant: the same index drawn for every pick.
MutPickRepeatsFirst(perm, k) == [i \in 1..Min2(k, Len(perm)) |-> perm[1]]

\* npr.permutation(n_pool)[:FLAGS.n_extra]
random_pick(perm, k) == SliceTo(perm, k)

\* Faulty variant: the assertion lets a margin of 0 through.
MutDiffAssertionGeq(diff) == SeqMin(diff) >= 0

\* assert min(pool_probs_diff) > 0.
diff_assertion(diff) == SeqMin(diff) > 0

\* ------------------------------------------------------ training loop
\* Faulty variant: the leftover batch is dropped.
MutNumBatchesComplete(num_extra, bs) == num_extra \div bs

\* num_complete_batches, leftover = divmod(num_extra, FLAGS.batch_size)
\* num_batches = num_complete_batches + bool(leftover)
NumBatches(num_extra, bs) ==
  (num_extra \div bs) + (IF num_extra % bs # 0 THEN 1 ELSE 0)

\* data.minibatcher: the fine-tuning set cut into consecutive batches of
\* batch_size examples, the last one short; pos is the number of examples
\* already handed out.
minibatcher_next(pos, num_extra, bs) ==
  [from |-> pos, n |-> Min2(bs, num_extra - pos)]

\* optimizers.sgd: opt_init(params) and opt_update(i, g, opt_state).  The
\* gradient is a function of the parameters it is taken at and of the batch,
\* so the state is kept as the loaded parameters and the updates applied to
\* them, in order.
opt_init(params) == [params |-> params, updates |-> <<>>]
opt_update(g, state) == [state EXCEPT !.updates = Append(@, g)]
get_params(state) == state.params

VARIABLES pc, error, dpsgd, uncertain, n_extra, batch_size, epochs,
          pool_images, opt_state, predict_call, pool_probs,
          pool_uncertain_indices, finetune_images, epoch, num_batches,
          batch_no, batches, itercount, key, stdout_log

mainvars == <<pc, error, dpsgd, uncertain, n_extra, batch_size, epochs,
              pool_images, opt_state, predict_call, pool_probs,
              pool_uncertain_indices, finetune_images, epoch, num_batches,
              batch_no, batches, itercount, key, stdout_log>>

flagvars == <<dpsgd, uncertain, n_extra, batch_size, epochs, pool_images>>
loopvars == <<epoch, num_batches, batch_no, batches, itercount, key>>
samplevars == <<pool_probs, pool_uncertain_indices, finetune_images>>

vars == <<mainvars, pgvars>>

NoCall == [params |-> <<>>, params_0 |-> <<>>, params_1 |-> <<>>,
           embed_called |-> FALSE, embed_applied |-> 0,
           head_called |-> FALSE, head_applied |-> 0,
           error |-> "none", logits |-> FALSE]

\* Checkpoints the run may find on disk: the whole parameter list, the list
\* without its last entry, the last three and the last two entries (what a
\* run on top of the 7 pretrained entries stores), and an empty list.
Checkpoints ==
  {FullParams, SubSeq(FullParams, 1, 9), SubSeq(FullParams, 8, 10),
   SubSeq(FullParams, 9, 10), <<>>}

AllPools == [1..NPool -> ProbVectors]

InitMain(pools, epochsSet, batchSet) ==
  /\ pc = "load"
  /\ error = "none"
  /\ dpsgd \in BOOLEAN
  /\ uncertain \in 0..2
  /\ n_extra \in 1..MaxExtra
  /\ batch_size \in batchSet
  /\ epochs \in epochsSet
  /\ pool_images \in pools
  /\ opt_state = opt_init(<<>>)
  /\ predict_call = NoCall
  /\ pool_probs = <<>>
  /\ pool_uncertain_indices = <<>>
  /\ finetune_images = <<>>
  /\ epoch = 0
  /\ num_batches = 0
  /\ batch_no = 0
  /\ batches = 0
  /\ itercount = 0
  /\ key = <<>>
  /\ stdout_log = <<>>

\* Lines 229-250: the parameters are the checkpoint's, with the first 7
\* pretrained entries in front when FLAGS.pretrained_dir is given.
LoadCkpt ==
  /\ pc = "load"
  /\ \E pretrained \in BOOLEAN, ckpt \in Checkpoints :
       opt_state' =
         IF pretrained
           THEN opt_init(SliceTo(FullParams, PretrainedPrefix) \o ckpt)
           ELSE opt_init(ckpt)
  /\ pc' = "eval0"
  /\ UNCHANGED <<error, flagvars, predict_call, samplevars, loopvars,
                 stdout_log, pgvars>>

\* Lines 252-259: the accuracy of the loaded parameters on the test set.
InitialEval ==
  /\ pc = "eval0"
  /\ LET a == accuracy(get_params(opt_state))
     IN  /\ predict_call' = a.call
         /\ error' = a.error
         /\ pc' = IF a.error = "none" THEN "sample" ELSE "aborted"
         /\ stdout_log' =
              IF a.error = "none"
                THEN stdout_log \o <<[line |-> "finetune from"],
                                     [line |-> "test accuracy"]>>
                ELSE Append(stdout_log, [line |-> "finetune from"])
  /\ UNCHANGED <<flagvars, opt_state, samplevars, loopvars, pgvars>>

\* What the sampler leaves behind: the indices picked, the fine-tuning set
\* copied from the pool at them, and the assertion of line 344.
Picked(indices) ==
  LET finetune == [i \in 1..Len(indices) |-> pool_images[indices[i] + 1]]
  IN  /\ pool_uncertain_indices' = indices
      /\ finetune_images' = finetune
      /\ IF n_extra = Len(finetune)
           THEN /\ pc' = "epoch"
                /\ error' = "none"
                /\ epoch' = 1
           ELSE /\ pc' = "aborted"
                /\ error' = "AssertionError: n_extra"
                /\ epoch' = epoch

\* Lines 280-344: the pool's probabilities, then the n_extra most uncertain
\* pool indices under the criterion FLAGS.uncertain.
Sample ==
  /\ pc = "sample"
  \* apply_fn_0(params[:-1], ...) and apply_fn_1(params[-1:], ...): the same
  \* split and stages as predict.
  /\ predict_call' = predict(get_params(opt_state))
  /\ pool_probs' = pool_images
  /\ CASE uncertain = 0 ->
            LET pool_entropy == [i \in 1..NPool |-> EntropyOf[pool_images[i]]]
            IN  \E sorted \in argsort(pool_entropy) :
                  Picked(most_uncertain_entropy(sorted, n_extra))
       [] uncertain = 1 ->
            LET pool_probs_diff ==
                  [i \in 1..NPool |-> DiffOf[pool_images[i]]]
            IN  IF diff_assertion(pool_probs_diff)
                  THEN \E sorted \in argsort(pool_probs_diff) :
                         Picked(most_uncertain_diff(sorted, n_extra))
                  ELSE /\ pc' = "aborted"
                       /\ error' = "AssertionError: min(pool_probs_diff) > 0"
                       /\ UNCHANGED <<pool_uncertain_indices, finetune_images,
                                      epoch>>
       [] uncertain = 2 ->
            \E perm \in PoolPerms : Picked(random_pick(perm, n_extra))
  /\ stdout_log' = stdout_log
  /\ UNCHANGED <<flagvars, opt_state, num_batches, batch_no, batches,
                 itercount, key, pgvars>>

\* Lines 346-363: the head of the epoch loop.
EpochStart ==
  /\ pc = "epoch"
  /\ epoch <= epochs
  /\ num_batches' = NumBatches(Len(finetune_images), batch_size)
  /\ batches' = 0
  /\ itercount' = 0
  /\ key' = PRNGKey(FLAGS_seed)
  /\ batch_no' = 0
  /\ pc' = "batch"
  /\ UNCHANGED <<error, flagvars, opt_state, predict_call, samplevars, epoch,
                 stdout_log, pgvars>>

\* Lines 372-374: update(key, next(itercount), opt_state, batch).  The loss
\* is the mean over the batch, so the gradient is divided by its length.
Update ==
  /\ pc = "batch"
  /\ batch_no < num_batches
  /\ ~dpsgd
  /\ LET b == minibatcher_next(batches, Len(finetune_images), batch_size)
     IN  /\ batches' = batches + b.n
         /\ opt_state' =
              opt_update([fn |-> "update", epoch |-> epoch, i |-> itercount,
                          rng |-> <<>>, batch |-> b, divisor |-> b.n],
                         opt_state)
  /\ predict_call' = predict(get_params(opt_state))
  /\ itercount' = itercount + 1
  /\ batch_no' = batch_no + 1
  /\ UNCHANGED <<pc, error, flagvars, samplevars, epoch, num_batches, key,
                 stdout_log, pgvars>>

\* Lines 368-371 and 268-275: private_update(key, next(itercount), opt_state,
\* batch) folds i into the key and calls private_grad with FLAGS.batch_size.
PrivateUpdate ==
  /\ pc = "batch"
  /\ batch_no < num_batches
  /\ dpsgd
  /\ LET b == minibatcher_next(batches, Len(finetune_images), batch_size)
     IN  /\ batches' = batches + b.n
         /\ opt_state' =
              opt_update([fn |-> "private_update", epoch |-> epoch,
                          i |-> itercount, rng |-> fold_in(key, itercount),
                          batch |-> b, divisor |-> batch_size],
                         opt_state)
  /\ predict_call' = predict(get_params(opt_state))
  /\ itercount' = itercount + 1
  /\ batch_no' = batch_no + 1
  /\ UNCHANGED <<pc, error, flagvars, samplevars, epoch, num_batches, key,
                 stdout_log, pgvars>>

\* Lines 378-394: after the epoch's batches, the test loss and accuracy of
\* the current parameters.
Evaluate ==
  /\ pc = "batch"
  /\ batch_no = num_batches
  /\ predict_call' = predict(get_params(opt_state))
  /\ stdout_log' =
       stdout_log \o <<[line |-> "Epoch", epoch |-> epoch],
                       [line |-> "Eval", epoch |-> epoch,
                        updates |-> Len(opt_state.updates)]>>
  /\ epoch' = epoch + 1
  /\ pc' = "epoch"
  /\ UNCHANGED <<error, flagvars, opt_state, samplevars, num_batches,
                 batch_no, batches, itercount, key, pgvars>>

\* Line 405: the loop is over.
Finish ==
  /\ pc = "epoch"
  /\ epoch > epochs
  /\ pc' = "done"
  /\ UNCHANGED <<error, flagvars, opt_state, predict_call, samplevars,
                 loopvars, stdout_log, pgvars>>

PgIdle ==
  /\ pg_phase = "idle"
  /\ pg_args = <<>>
  /\ pg_divisors = <<>>
  /\ pg_clipped = <<>>
  /\ pg_ret = <<>>

\* The pool of the runs that explore the training loop: no two classes tie.
TrainPools == {[i \in 1..NPool |-> IF i % 2 = 1 THEN P541 ELSE P262]}

Init == InitMain(TrainPools, 1..MaxEpochs, 1..MaxBatch) /\ PgIdle

Next ==
  \/ LoadCkpt
  \/ InitialEval
  \/ Sample
  \/ EpochStart
  \/ Update
  \/ PrivateUpdate
  \/ Evaluate
  \/ Finish

Spec == Init /\ [][Next]_vars

\* The program is one thread that runs until it is done or has aborted.
FairSpec == Spec /\ WF_vars(Next)

\* The runs that explore the sampler: every pool, one epoch.
InitSampler == InitMain(AllPools, {1}, 1..MaxBatch) /\ PgIdle
SpecSampler == InitSampler /\ [][Next]_vars

MainOff ==
  /\ pc = "off"
  /\ error = "none"
  /\ dpsgd = FALSE
  /\ uncertain = 0
  /\ n_extra = 1
  /\ batch_size = 1
  /\ epochs = 1
  /\ pool_images = <<>>
  /\ opt_state = opt_init(<<>>)
  /\ predict_call = NoCall
  /\ pool_probs = <<>>
  /\ pool_uncertain_indices = <<>>
  /\ finetune_images = <<>>
  /\ epoch = 0
  /\ num_batches = 0
  /\ batch_no = 0
  /\ batches = 0
  /\ itercount = 0
  /\ key = <<>>
  /\ stdout_log = <<>>

InitGrad == InitGradArgs /\ MainOff
NextGrad == PrivateGradCall /\ UNCHANGED mainvars
SpecGrad == InitGrad /\ [][NextGrad]_vars

\* ------------------------------------------------ claims: private_grad
\* The squared global L2 norm of a gradient tree: all components of all
\* tensors taken together.
RECURSIVE GlobalNormSqFrom(_, _)
GlobalNormSqFrom(g, t) ==
  IF t > Len(g) THEN RInt(0)
  ELSE RAdd(SumSqFrom(g[t], 1), GlobalNormSqFrom(g, t + 1))

GlobalNormSq(g) == GlobalNormSqFrom(g, 1)

RECURSIVE ClaimSum(_, _, _, _)
ClaimSum(px, t, c, i) ==
  IF i = 0 THEN RInt(0) ELSE RAdd(ClaimSum(px, t, c, i - 1), px[i][t][c])

\* C1: for every example the divisor is max(global norm / C, 1), with the
\* norm taken over all parameter components together: an example of global
\* norm <= C is returned unchanged, one of global norm > C is scaled to
\* global norm exactly C, and every clipped example has global norm <= C.
C1_GlobalClip ==
  pg_phase = "returned" =>
    \A i \in DOMAIN pg_args.batch :
      LET g == pg_args.batch[i]
          CC == RMul(pg_args.l2_norm_clip, pg_args.l2_norm_clip)
          d == pg_divisors[i]
          cl == pg_clipped[i]
      IN  /\ RMul(d, d) = RMax(RDiv(GlobalNormSq(g), CC), RInt(1))
          /\ RLe(RInt(1), d)
          /\ RLe(GlobalNormSq(g), CC) => cl = g
          /\ RLt(CC, GlobalNormSq(g)) => GlobalNormSq(cl) = CC
          /\ RLe(GlobalNormSq(cl), CC)

\* A batch holding an example above the clip norm whose gradient is spread
\* over both tensors, and an example below it, has been clipped.
C1_Witness ==
  /\ pg_phase = "returned"
  /\ pg_args.l2_norm_clip = RInt(2)
  /\ pg_args.batch = <<G5, GHalf>>
  /\ pg_clipped[1] # G5
  /\ pg_clipped[2] = GHalf

\* C2: clip, sum, add noise of standard deviation C*sigma, divide by B:
\* every component of the result is (sum of the clipped per-example
\* gradients + C*sigma*z) / B; and with sigma = 0, B = 2, C = 1 and examples
\* of norms 3 and 1/2 the divisors are [3, 1], the clipped norms [1, 1/2] and
\* the result the plain average of the two clipped gradients.
C2_ClipSumNoiseNormalize ==
  pg_phase = "returned" =>
    LET B == RInt(pg_args.batch_size)
        n == Len(pg_args.batch)
    IN  /\ \A t \in DOMAIN TensorSizes :
             /\ \A c \in 1..TensorSizes[t] :
                  RMul(pg_ret[t].det[c], B) = ClaimSum(pg_clipped, t, c, n)
             /\ RMul(pg_ret[t].coef, B) =
                  RMul(pg_args.l2_norm_clip, pg_args.noise_multiplier)
        /\ ( /\ pg_args.batch = <<G3, GHalf>>
             /\ pg_args.l2_norm_clip = RInt(1)
             /\ pg_args.noise_multiplier = RInt(0)
             /\ pg_args.batch_size = 2 )
           => /\ pg_divisors = <<RInt(3), RInt(1)>>
              /\ GlobalNormSq(pg_clipped[1]) = RInt(1)
              /\ GlobalNormSq(pg_clipped[2]) = Rat(1, 4)
              /\ pg_ret[1].det = <<Rat(13, 20), Rat(1, 5)>>
              /\ pg_ret[2].det = <<RInt(0)>>
              /\ pg_ret[1].coef = RInt(0)
              /\ pg_ret[2].coef = RInt(0)

\* The end-to-end scenario of C2 has run.
C2_Witness ==
  /\ pg_phase = "returned"
  /\ pg_args.batch = <<G3, GHalf>>
  /\ pg_args.l2_norm_clip = RInt(1)
  /\ pg_args.noise_multiplier = RInt(0)
  /\ pg_args.batch_size = 2

\* C3: within one call of private_grad no two parameter tensors have their
\* noise drawn from the same random key.
C3_FreshKeyPerTensor ==
  pg_phase = "returned" =>
    \A t1, t2 \in DOMAIN pg_ret :
      t1 # t2 => pg_ret[t1].key # pg_ret[t2].key
\* --------------------------------------------------- claims: main loop
Ceil(n, b) == (n + b - 1) \div b

IsPrefix(s, t) == Len(s) <= Len(t) /\ \A i \in 1..Len(s) : s[i] = t[i]

Updates == opt_state.updates

EvalLines == SelectSeq(stdout_log, LAMBDA l : l.line = "Eval")

Terminal == {"done", "aborted"}

\* C4: the loop reaches its terminal state unless it aborts; updates are only
\* ever appended to the optimizer state, all plain or all private by dpsgd;
\* the e-th evaluation is that of epoch e and sees exactly e * ceil(n_extra /
\* batch_size) updates; and at the end epochs * ceil(n_extra / batch_size)
\* updates have been applied and epochs evaluations made.
C4_LoopTerminatesWithAllUpdates ==
  /\ <>(pc \in Terminal)
  /\ [][IsPrefix(opt_state.updates, opt_state'.updates)]_vars
  /\ [](\A k \in DOMAIN Updates :
          Updates[k].fn = IF dpsgd THEN "private_update" ELSE "update")
  /\ [](\A e \in DOMAIN EvalLines :
          /\ EvalLines[e].epoch = e
          /\ EvalLines[e].updates = e * Ceil(n_extra, batch_size))
  /\ [](pc = "done" =>
          /\ Len(Updates) = epochs * Ceil(n_extra, batch_size)
          /\ Len(EvalLines) = epochs)

\* A run of two epochs with a short last batch is done.
C4_Witness ==
  /\ pc = "done"
  /\ epochs = 2
  /\ n_extra = 3
  /\ batch_size = 2
  /\ Len(Updates) = 4

SamplerReturned ==
  pool_probs # <<>> /\ error # "AssertionError: min(pool_probs_diff) > 0"

Selected == {pool_uncertain_indices[i] : i \in DOMAIN pool_uncertain_indices}

\* Scores of a pool example, from its probabilities alone.
ClaimEntropy(p) == NegPLogP[p[1]] + NegPLogP[p[2]] + NegPLogP[p[3]]
ClaimMargin(p) ==
  LET top1 == CHOOSE c \in 1..3 : \A c2 \in 1..3 : p[c2] <= p[c]
      top2 == CHOOSE c \in 1..3 \ {top1} :
                \A c2 \in 1..3 \ {top1} : p[c2] <= p[c]
  IN  p[top1] - p[top2]

\* C6: under the entropy criterion every selected index has entropy >= that
\* of every index not selected; under the margin criterion every selected
\* index has margin <= that of every index not selected.
C6_MostUncertain ==
  SamplerReturned =>
    \A s \in Selected : \A o \in (0..(NPool - 1)) \ Selected :
      /\ uncertain = 0 =>
           ClaimEntropy(pool_probs[s + 1]) >= ClaimEntropy(pool_probs[o + 1])
      /\ uncertain = 1 =>
           ClaimMargin(pool_probs[s + 1]) <= ClaimMargin(pool_probs[o + 1])

\* Entropy and margin disagree on this pool, and one index was picked.
C6_Witness ==
  /\ SamplerReturned
  /\ uncertain = 0
  /\ n_extra = 1
  /\ pool_probs[1] = P541
  /\ pool_probs[2] = P262
  /\ pool_probs[3] = P541
  /\ pool_uncertain_indices = <<1>>

\* C7: under the margin criterion, a pool with any margin <= 0 makes the
\* sampler fail with the assertion, before any index is selected and before
\* any update: the optimizer state is the loaded one.
C7_MarginTieAborts ==
  ( /\ uncertain = 1
    /\ pool_probs # <<>>
    /\ \E i \in DOMAIN pool_probs : ClaimMargin(pool_probs[i]) <= 0 )
  => /\ pc = "aborted"
     /\ error = "AssertionError: min(pool_probs_diff) > 0"
     /\ pool_uncertain_indices = <<>>
     /\ finetune_images = <<>>
     /\ opt_state = opt_init(FullParams)
     /\ \A l \in DOMAIN stdout_log : stdout_log[l].line # "Eval"

\* Two examples tie and one was asked for, so one of them would not have
\* been selected.
C7_Witness ==
  /\ uncertain = 1
  /\ n_extra = 1
  /\ pool_probs # <<>>
  /\ pool_probs[1] = P424
  /\ pool_probs[2] = P262
  /\ pool_probs[NPool] = P424
  /\ pc = "aborted"

\* The split index fixed by the model: the number of embedding layers.
SplitIndex == Len(Layers0)

\* C8: predict splits the parameters into a prefix and a suffix whose
\* lengths sum to the parameters' length, and with fewer parameters than the
\* split index it fails with ShapeError without running either stage.
C8_ShapeErrorBelowSplit ==
  predict_call # NoCall =>
    /\ Len(predict_call.params_0) + Len(predict_call.params_1) =
         Len(predict_call.params)
    /\ Len(predict_call.params) < SplitIndex =>
         /\ predict_call.error = "ShapeError"
         /\ ~predict_call.embed_called
         /\ ~predict_call.head_called

\* C9: the step index of the k-th update of a run with dpsgd is k - 1, the
\* number of updates applied before it, and no two private updates of the
\* run draw their noise from the same key.
C9_StepIndexNeverReset ==
  \A k \in DOMAIN Updates :
    Updates[k].fn = "private_update" =>
      /\ Updates[k].i = k - 1
      /\ \A m \in DOMAIN Updates : m # k => Updates[m].rng # Updates[k].rng

\* C10: the B a private update divides by is the number of examples of its
\* minibatch.
C10_DivisorIsBatchLength ==
  \A k \in DOMAIN Updates :
    Updates[k].fn = "private_update" =>
      Updates[k].divisor = Updates[k].batch.n
====
